---- MODULE Spec2Model ----
(***************************************************************************)
(* Model of profanityfilter/profanityfilter.py: the ProfanityFilter engine *)
(* (default, custom and extra censor lists, censor character, censor       *)
(* length, word-boundary switch) and its operations.                       *)
(*                                                                         *)
(* A Python str is modelled as a sequence of one-character strings, so     *)
(* that length, indexing, concatenation and matching are explicit.         *)
(***************************************************************************)
EXTENDS Integers, Sequences, FiniteSets, TLC

VARIABLES
    censor_list,          \* self._censor_list        (default WordList)
    custom_censor_list,   \* self._custom_censor_list
    extra_censor_list,    \* self._extra_censor_list
    no_word_boundaries,   \* self._no_word_boundaries
    censor_char,          \* self._censor_char
    censor_length,        \* self._censor_length
    hashseed,             \* the process's str hash order (iteration order of set())
    hist_extra,           \* history: constructor's extra list followed by every
                          \* append_words argument since construction / restore_words
    ret                   \* the last call: its name, arguments and outcome

engine == <<censor_list, custom_censor_list, extra_censor_list,
            no_word_boundaries, censor_char, censor_length>>

vars == <<censor_list, custom_censor_list, extra_censor_list,
          no_word_boundaries, censor_char, censor_length, hashseed,
          hist_extra, ret>>

(***************************************************************************)
(* Characters.                                                             *)
(***************************************************************************)

\* Characters of class \w (ASCII letters, digits, underscore) used by the model.
LowerLetters == {"a", "b", "e", "s"}
UpperLetters == {"A", "B", "S"}
Digits == <<"0", "1", "2", "3", "4", "5", "6", "7", "8", "9">>

IsWordChar(c) ==
    \/ c \in LowerLetters
    \/ c \in UpperLetters
    \/ \E d \in 1..Len(Digits) : Digits[d] = c
    \/ c = "_"

\* re.IGNORECASE: characters are compared after case folding.
Lower(c) ==
    CASE c = "A" -> "a"
      [] c = "B" -> "b"
      [] c = "S" -> "s"
      [] OTHER -> c

\* A fixed enumeration of the characters, used only to order strings.
CharCodes == <<" ", "!", "*", "+", "-", ".", "0", "1", "2", "3", "4", "5", "6",
               "7", "8", "9", "?", "A", "B", "S", "\\", "_", "a", "b", "e", "s">>

Code(c) == CHOOSE i \in 1..Len(CharCodes) : CharCodes[i] = c

Range(s) == {s[i] : i \in 1..Len(s)}

RECURSIVE Repeat(_, _)
\* Python's  s * n  (the empty string when n <= 0).
Repeat(s, n) == IF n <= 0 THEN <<>> ELSE s \o Repeat(s, n - 1)

RECURSIVE NatToStr(_)
NatToStr(n) == IF n < 10 THEN <<Digits[n + 1]>>
               ELSE NatToStr(n \div 10) \o <<Digits[(n % 10) + 1]>>

\* Python's str(int).
IntToStr(n) == IF n < 0 THEN <<"-">> \o NatToStr(-n) ELSE NatToStr(n)

(***************************************************************************)
(* is_regex_pattern and the sort key of get_profane_words.                 *)
(***************************************************************************)

\* The single characters the detection pattern lists:  * + ? { } [ ] ( ) . ^ $
MetaChars == {"*", "+", "?", "{", "}", "[", "]", "(", ")", ".", "^", "$"}

\* The characters that make a backslash pair one of \d \D \w \W \s \S \b \B \|
EscapeClassChars == {"d", "D", "w", "W", "s", "S", "b", "B", "|"}

\* is_regex_pattern(s): the detection pattern matches somewhere in s.
is_regex_pattern(s) ==
    \E i \in 1..Len(s) :
        \/ s[i] \in MetaChars
        \/ s[i] = "\\" /\ i < Len(s) /\ s[i + 1] \in EscapeClassChars

\* Python orders False before True.
BoolRank(b) == IF b THEN 1 ELSE 0

\* Mutant: the key without the regex-pattern flag.
SortKey_lengthOnly(x) == <<0, -Len(x)>>

\* Mutant: the key with the length ascending.
SortKey_ascending(x) == <<BoolRank(is_regex_pattern(x)), Len(x)>>

\* key=lambda x: (is_regex_pattern(x), -len(x)), compared as a tuple.
SortKey(x) == <<BoolRank(is_regex_pattern(x)), -Len(x)>>

KeyLess(x, y) ==
    \/ SortKey(x)[1] < SortKey(y)[1]
    \/ SortKey(x)[1] = SortKey(y)[1] /\ SortKey(x)[2] < SortKey(y)[2]

\* One step of a stable sort: x, the later element, goes after every element
\* whose key is not greater than its own.
InsertByKey(sorted, x) ==
    LET after == {i \in 1..Len(sorted) : KeyLess(x, sorted[i])}
        at == IF after = {} THEN Len(sorted) + 1
              ELSE CHOOSE i \in after : \A j \in after : i <= j
    IN  SubSeq(sorted, 1, at - 1) \o <<x>> \o SubSeq(sorted, at, Len(sorted))

RECURSIVE SortByKey(_)
\* list.sort(key=...): stable, ascending in the key.
SortByKey(s) ==
    IF s = <<>> THEN <<>>
    ELSE InsertByKey(SortByKey(SubSeq(s, 1, Len(s) - 1)), s[Len(s)])

(***************************************************************************)
(* list(set(profane_words)): the duplicates go, and the order is the set's *)
(* iteration order, which depends on the process's string hashing and not  *)
(* on the list.  It is one of two orders here, fixed for the process.      *)
(***************************************************************************)

RECURSIVE LexLess(_, _)
LexLess(u, v) ==
    IF v = <<>> THEN FALSE
    ELSE IF u = <<>> THEN TRUE
    ELSE IF u[1] # v[1] THEN Code(u[1]) < Code(v[1])
    ELSE LexLess(Tail(u), Tail(v))

HashBefore(u, v) == IF hashseed THEN LexLess(v, u) ELSE LexLess(u, v)

RECURSIVE SetToList(_)
SetToList(S) ==
    IF S = {} THEN <<>>
    ELSE LET first == CHOOSE x \in S : \A y \in S \ {x} : HashBefore(x, y)
         IN  <<first>> \o SetToList(S \ {first})

(***************************************************************************)
(* inflection.pluralize, as far as the model's characters reach: the empty *)
(* word is returned as it is; of the rules, tried in order, the ones that  *)
(* can match are (x|ch|ss|sh)$ -> \1es, then s$ -> s and $ -> s, all       *)
(* case-insensitive.                                                       *)
(***************************************************************************)
pluralize(word) ==
    LET n == Len(word) IN
    IF n = 0 THEN word
    ELSE IF n >= 2 /\ Lower(word[n - 1]) = "s" /\ Lower(word[n]) = "s"
         THEN word \o <<"e", "s">>
    ELSE IF Lower(word[n]) = "s" THEN SubSeq(word, 1, n - 1) \o <<"s">>
    ELSE word \o <<"s">>

(***************************************************************************)
(* get_profane_words.                                                      *)
(***************************************************************************)

\* Mutant: the plurals of the base list only.
ProfaneWordsList_basePlurals(default, custom, extra) ==
    LET base == IF custom # <<>> THEN custom ELSE default
    IN  base \o extra \o [i \in 1..Len(base) |-> pluralize(base[i])]

\* The list get_profane_words holds before set(): the base list (the custom
\* list when it is non-empty, the default list otherwise), the extra list, and
\* then the plural of each of these.
ProfaneWordsList(default, custom, extra) ==
    LET base == IF custom # <<>> THEN custom ELSE default
        words == base \o extra
    IN  words \o [i \in 1..Len(words) |-> pluralize(words[i])]

\* list(set(...)) and the sort.
ProfaneWords(default, custom, extra) ==
    SortByKey(SetToList(Range(ProfaneWordsList(default, custom, extra))))

get_profane_words ==
    ProfaneWords(censor_list, custom_censor_list, extra_censor_list)

(***************************************************************************)
(* re.compile(regex_string, re.IGNORECASE) and regex.sub(repl, res), for   *)
(* the patterns the model's words give: literal characters, the dot, the   *)
(* greedy quantifiers + ? * on one character, and \b.                      *)
(***************************************************************************)

Quantifiers == {"+", "?", "*"}

RECURSIVE ParseFrom(_, _)
\* The pattern's items from position i on.  An item is a boundary assertion
\* or one character (the dot: any character) with its quantifier.
ParseFrom(p, i) ==
    IF i > Len(p) THEN <<>>
    ELSE IF p[i] = "\\" /\ i < Len(p) /\ p[i + 1] = "b"
         THEN <<[kind |-> "wb", ch |-> "", q |-> "1"]>> \o ParseFrom(p, i + 2)
    ELSE LET quantified == i < Len(p) /\ p[i + 1] \in Quantifiers
             item == [kind |-> IF p[i] = "." THEN "any" ELSE "lit",
                      ch |-> p[i],
                      q |-> IF quantified THEN p[i + 1] ELSE "1"]
         IN  <<item>> \o ParseFrom(p, IF quantified THEN i + 2 ELSE i + 1)

Compile(p) == ParseFrom(p, 1)

\* \b at offset pos of t (0 .. Len(t)): exactly one of the characters before
\* and after it is a word character.
AtBoundary(t, pos) ==
    (pos > 0 /\ IsWordChar(t[pos])) # (pos < Len(t) /\ IsWordChar(t[pos + 1]))

ItemMatches(item, c) == item.kind = "any" \/ Lower(item.ch) = Lower(c)

RECURSIVE RunLength(_, _, _)
\* How many characters from offset pos on the item matches in a row.
RunLength(item, t, pos) ==
    IF pos < Len(t) /\ ItemMatches(item, t[pos + 1])
    THEN 1 + RunLength(item, t, pos + 1) ELSE 0

RECURSIVE MatchFrom(_, _, _, _, _, _)
RECURSIVE TryCount(_, _, _, _, _, _, _, _)

\* The backtracking matcher: the offset at which items k.. match t from pos, or
\* -1.  A quantified item takes as many characters as it can and gives them
\* back one at a time.  With adv (the search must advance) an empty match at
\* the offset start where the search began is refused.
MatchFrom(items, k, t, pos, start, adv) ==
    IF k > Len(items) THEN (IF adv /\ pos = start THEN -1 ELSE pos)
    ELSE LET item == items[k] IN
         IF item.kind = "wb"
         THEN (IF AtBoundary(t, pos)
               THEN MatchFrom(items, k + 1, t, pos, start, adv) ELSE -1)
         ELSE IF item.q = "1"
         THEN (IF pos < Len(t) /\ ItemMatches(item, t[pos + 1])
               THEN MatchFrom(items, k + 1, t, pos + 1, start, adv) ELSE -1)
         ELSE LET run == RunLength(item, t, pos)
                  most == IF item.q = "?" /\ run > 1 THEN 1 ELSE run
                  least == IF item.q = "+" THEN 1 ELSE 0
              IN  TryCount(items, k, t, pos, start, adv, most, least)

TryCount(items, k, t, pos, start, adv, n, least) ==
    IF n < least THEN -1
    ELSE LET e == MatchFrom(items, k + 1, t, pos + n, start, adv)
         IN  IF e >= 0 THEN e
             ELSE TryCount(items, k, t, pos, start, adv, n - 1, least)

RECURSIVE Search(_, _, _, _, _)
\* The leftmost match starting at offset s or later: <<start, end>>, or
\* <<-1, -1>>.  Only the first offset tried has to advance.
Search(items, t, s, from, adv) ==
    IF s > Len(t) THEN <<-1, -1>>
    ELSE LET e == MatchFrom(items, 1, t, s, s, adv /\ s = from)
         IN  IF e >= 0 THEN <<s, e>> ELSE Search(items, t, s + 1, from, adv)

\* Mutant: only the first match is replaced (count=1).
SubFrom_firstOnly(items, word, repl, t, pos, adv) ==
    LET m == Search(items, t, pos, pos, adv) IN
    IF m[1] < 0 THEN [text |-> SubSeq(t, pos + 1, Len(t)), subs |-> <<>>]
    ELSE [text |-> SubSeq(t, pos + 1, m[1]) \o repl
                       \o SubSeq(t, m[2] + 1, Len(t)),
          subs |-> <<[word |-> word,
                      matched |-> SubSeq(t, m[1] + 1, m[2]),
                      repl |-> repl]>>]

RECURSIVE SubFrom(_, _, _, _, _, _)
\* regex.sub(repl, t) from offset pos on: every non-overlapping match, left to
\* right, is replaced by repl; after an empty match the search must advance.
\* The result is the new text and, for each match in order, the entry, the
\* matched text and its replacement.
SubFrom(items, word, repl, t, pos, adv) ==
    LET m == Search(items, t, pos, pos, adv) IN
    IF m[1] < 0 THEN [text |-> SubSeq(t, pos + 1, Len(t)), subs |-> <<>>]
    ELSE LET rest == SubFrom(items, word, repl, t, m[2], m[1] = m[2])
         IN  [text |-> SubSeq(t, pos + 1, m[1]) \o repl \o rest.text,
              subs |-> <<[word |-> word,
                          matched |-> SubSeq(t, m[1] + 1, m[2]),
                          repl |-> repl]>> \o rest.subs]

(***************************************************************************)
(* censor and the predicates built on it.                                  *)
(***************************************************************************)

\* Mutant: the word boundaries are always applied.
RegexString_bounded(word, nwb) == <<"\\", "b">> \o word \o <<"\\", "b">>

\* r'{0}' if self._no_word_boundaries else r'\b{0}\b', formatted with word.
RegexString(word, nwb) ==
    IF nwb THEN word ELSE <<"\\", "b">> \o word \o <<"\\", "b">>

\* self._censor_char * (self._censor_length if self._censor_length > -1
\*                      else len(word))
Replacement(word, char, length) ==
    Repeat(char, IF length > -1 THEN length ELSE Len(word))

RECURSIVE CensorLoop(_, _, _, _, _, _)
\* The loop over bad_words from index k on, res being the text so far.
CensorLoop(bad_words, k, res, nwb, char, length) ==
    IF k > Len(bad_words) THEN [text |-> res, subs |-> <<>>]
    ELSE LET word == bad_words[k]
             pass == SubFrom(Compile(RegexString(word, nwb)), word,
                             Replacement(word, char, length), res, 0, FALSE)
             rest == CensorLoop(bad_words, k + 1, pass.text, nwb, char, length)
         IN  [text |-> rest.text, subs |-> pass.subs \o rest.subs]

\* censor(input_text), with the substitutions it made.
CensorRun(input_text) ==
    CensorLoop(get_profane_words, 1, input_text, no_word_boundaries,
               censor_char, censor_length)

censor(input_text) == CensorRun(input_text).text

has_bad_word(text) == censor(text) # text

\* Mutant: the negation is missing.
is_clean_same(input_text) == has_bad_word(input_text)

is_clean(input_text) == ~has_bad_word(input_text)

is_profane(input_text) == has_bad_word(input_text)

(***************************************************************************)
(* The inputs the operations are called with.                              *)
(***************************************************************************)

W_ab == <<"a", "b">>
W_b == <<"b">>
W_as == <<"a", "s">>
W_abBang == <<"a", "b", "!">>
W_aPlus == <<"a", "+">>

\* data/badwords.txt, one stripped line per entry.
BadWords == <<W_ab, W_b>>

\* The longest extra list the engine's life builds.
MaxExtra == 2

\* The longest text of TextLetters censor is applied to.
MaxTextLen == 3

DefineArgs == {<<>>, <<W_b, W_as>>}
AppendArgs == {<<W_aPlus>>, <<W_b>>}
RemoveArgs == {W_ab, W_b, W_as}

\* set_censor's argument: a str, or an int.
SetCensorArgs == {[isint |-> FALSE, str |-> <<"*">>, int |-> 0],
                  [isint |-> TRUE, str |-> <<>>, int |-> 7]}

\* The texts the queries of the engine's life are asked about.
QueryTexts == {W_b, <<"A", "b", " ", "a">>}

TextLetters == {"a", "b", " "}

StringsUpTo(n) == UNION {[1..k -> TextLetters] : k \in 0..n}

\* The texts censor is applied to on its own.
Texts ==
    StringsUpTo(MaxTextLen)
    \cup {<<"a", "a", "b", "b">>, <<"A", "b", " ", "a">>, <<"a", "b", "!">>,
          <<"a", "b", "s">>, <<"b", " ", "a", "b", "!", " ", "b">>}

(***************************************************************************)
(* The engine.                                                             *)
(***************************************************************************)

\* What a call leaves in ret: its name, its list argument or result (words),
\* its text argument (text), its text result (out), its boolean result or
\* "raised" (flag), and censor's substitutions (subs).
Ret(op, words, text, out, flag, subs) ==
    [op |-> op, words |-> words, text |-> text, out |-> out, flag |-> flag,
     subs |-> subs]

\* _load_words: the lines of the bundled file.
load_words == BadWords

\* __init__(**kwargs), then a life of calls.
Init ==
    /\ custom_censor_list \in DefineArgs
    /\ extra_censor_list \in {<<>>, <<W_b>>}
    /\ no_word_boundaries \in BOOLEAN
    /\ censor_char = <<"_">>
    /\ censor_length \in {-1, 3}
    /\ censor_list = load_words
    /\ hashseed \in BOOLEAN
    /\ hist_extra = extra_censor_list
    /\ ret = Ret("init", <<>>, <<>>, <<>>, FALSE, <<>>)

\* __init__(**kwargs), for censor on its own.
InitCensor ==
    /\ custom_censor_list \in {<<>>, <<W_ab>>, <<W_b, W_as>>}
    /\ extra_censor_list \in {<<>>, <<W_abBang>>, <<W_aPlus>>}
    /\ no_word_boundaries \in BOOLEAN
    /\ censor_char \in {<<"_">>, <<"*">>, <<"b">>}
    /\ censor_length \in {-1, 0, 3}
    /\ censor_list = load_words
    /\ hashseed \in BOOLEAN
    /\ hist_extra = extra_censor_list
    /\ ret = Ret("init", <<>>, <<>>, <<>>, FALSE, <<>>)

define_words(word_list) ==
    /\ custom_censor_list' = word_list
    /\ ret' = Ret("define_words", word_list, <<>>, <<>>, FALSE, <<>>)
    /\ UNCHANGED <<censor_list, extra_censor_list, no_word_boundaries,
                   censor_char, censor_length, hashseed, hist_extra>>

append_words(word_list) ==
    /\ Len(extra_censor_list) + Len(word_list) <= MaxExtra
    /\ extra_censor_list' = extra_censor_list \o word_list
    /\ hist_extra' = hist_extra \o word_list
    /\ ret' = Ret("append_words", word_list, <<>>, <<>>, FALSE, <<>>)
    /\ UNCHANGED <<censor_list, custom_censor_list, no_word_boundaries,
                   censor_char, censor_length, hashseed>>

\* list.remove(x): the list without its first item equal to x.
ListRemove(list, x) ==
    LET i == CHOOSE k \in 1..Len(list) :
                 list[k] = x /\ \A j \in 1..(k - 1) : list[j] # x
    IN  SubSeq(list, 1, i - 1) \o SubSeq(list, i + 1, Len(list))

\* Mutant: the failure of list.remove is swallowed.
remove_word_silent(word) ==
    \/ /\ word \in Range(censor_list)
       /\ censor_list' = ListRemove(censor_list, word)
       /\ ret' = Ret("remove_word", <<>>, word, <<>>, FALSE, <<>>)
       /\ UNCHANGED <<custom_censor_list, extra_censor_list,
                      no_word_boundaries, censor_char, censor_length,
                      hashseed, hist_extra>>
    \/ /\ word \notin Range(censor_list)
       /\ ret' = Ret("remove_word", <<>>, word, <<>>, FALSE, <<>>)
       /\ UNCHANGED <<censor_list, custom_censor_list, extra_censor_list,
                      no_word_boundaries, censor_char, censor_length,
                      hashseed, hist_extra>>

remove_word(word) ==
    \/ /\ word \in Range(censor_list)
       /\ censor_list' = ListRemove(censor_list, word)
       /\ ret' = Ret("remove_word", <<>>, word, <<>>, FALSE, <<>>)
       /\ UNCHANGED <<custom_censor_list, extra_censor_list,
                      no_word_boundaries, censor_char, censor_length,
                      hashseed, hist_extra>>
    \/ /\ word \notin Range(censor_list)      \* list.remove raises ValueError
       /\ ret' = Ret("remove_word", <<>>, word, <<>>, TRUE, <<>>)
       /\ UNCHANGED <<censor_list, custom_censor_list, extra_censor_list,
                      no_word_boundaries, censor_char, censor_length,
                      hashseed, hist_extra>>

set_censor(character) ==
    /\ censor_char' = IF character.isint THEN IntToStr(character.int)
                      ELSE character.str
    /\ ret' = Ret("set_censor", <<>>, <<>>, <<>>, FALSE, <<>>)
    /\ UNCHANGED <<censor_list, custom_censor_list, extra_censor_list,
                   no_word_boundaries, censor_length, hashseed, hist_extra>>

\* Mutant: the extra list is not cleared.
restore_words_keepsExtra ==
    /\ custom_censor_list' = <<>>
    /\ censor_list' = load_words
    /\ ret' = Ret("restore_words", <<>>, <<>>, <<>>, FALSE, <<>>)
    /\ UNCHANGED <<extra_censor_list, hist_extra, no_word_boundaries,
                   censor_char, censor_length, hashseed>>

restore_words ==
    /\ custom_censor_list' = <<>>
    /\ extra_censor_list' = <<>>
    /\ censor_list' = load_words
    /\ hist_extra' = <<>>
    /\ ret' = Ret("restore_words", <<>>, <<>>, <<>>, FALSE, <<>>)
    /\ UNCHANGED <<no_word_boundaries, censor_char, censor_length, hashseed>>

\* Mutant: profane_words is the base list itself, not a copy of it, so that
\* the extends change the list.
CallGetProfaneWords_noCopy ==
    LET grown == ProfaneWordsList(censor_list, custom_censor_list,
                                  extra_censor_list)
    IN  /\ ret' = Ret("get_profane_words", get_profane_words, <<>>, <<>>,
                      FALSE, <<>>)
        /\ custom_censor_list' = IF custom_censor_list # <<>> THEN grown
                                 ELSE custom_censor_list
        /\ censor_list' = IF custom_censor_list # <<>> THEN censor_list
                          ELSE grown
        /\ UNCHANGED <<extra_censor_list, no_word_boundaries, censor_char,
                       censor_length, hashseed, hist_extra>>

CallGetProfaneWords ==
    /\ ret' = Ret("get_profane_words", get_profane_words, <<>>, <<>>, FALSE, <<>>)
    /\ UNCHANGED <<engine, hashseed, hist_extra>>

CallCensor(input_text) ==
    /\ LET run == CensorRun(input_text)
       IN  ret' = Ret("censor", <<>>, input_text, run.text, FALSE, run.subs)
    /\ UNCHANGED <<engine, hashseed, hist_extra>>

CallHasBadWord(text) ==
    /\ ret' = Ret("has_bad_word", <<>>, text, <<>>, has_bad_word(text), <<>>)
    /\ UNCHANGED <<engine, hashseed, hist_extra>>

CallIsClean(input_text) ==
    /\ ret' = Ret("is_clean", <<>>, input_text, <<>>, is_clean(input_text), <<>>)
    /\ UNCHANGED <<engine, hashseed, hist_extra>>

CallIsProfane(input_text) ==
    /\ ret' = Ret("is_profane", <<>>, input_text, <<>>, is_profane(input_text), <<>>)
    /\ UNCHANGED <<engine, hashseed, hist_extra>>

\* censor applied once to a text, on an engine as constructed.
CensorText(input_text) ==
    /\ ret.op = "init"
    /\ CallCensor(input_text)

Next ==
    \/ \E l \in DefineArgs : define_words(l)
    \/ \E l \in AppendArgs : append_words(l)
    \/ \E w \in RemoveArgs : remove_word(w)
    \/ \E c \in SetCensorArgs : set_censor(c)
    \/ restore_words
    \/ CallGetProfaneWords
    \/ \E t \in QueryTexts : CallCensor(t)
    \/ \E t \in QueryTexts : CallHasBadWord(t)
    \/ \E t \in QueryTexts : CallIsClean(t)
    \/ \E t \in QueryTexts : CallIsProfane(t)

\* The engine's life: construction, then any calls in any order.
Spec == Init /\ [][Next]_vars

NextCensor == \E t \in Texts : CensorText(t)

\* censor as a function of the engine's configuration and the text.
SpecCensor == InitCensor /\ [][NextCensor]_vars

(***************************************************************************)
(* Properties of the engine's life (Spec).                                 *)
(***************************************************************************)

QueryOps == {"censor", "has_bad_word", "is_profane", "is_clean",
             "get_profane_words"}

\* The words of a newly constructed engine with no options.
FreshProfaneWords == ProfaneWords(BadWords, <<>>, <<>>)

\* Whether text is profane for the default list alone, under the present
\* configuration.
ProfaneByDefault(text) ==
    CensorLoop(FreshProfaneWords, 1, text, no_word_boundaries, censor_char,
               censor_length).text # text

\* The words append_words is called with.
AppendedWords == UNION {Range(l) : l \in AppendArgs}

\* C1: after restore_words, whatever calls came before it, the custom list
\* and the extra list are empty and the default list is the bundled list, so
\* that get_profane_words() is what a newly constructed engine with no options
\* returns; a word outside the default list that only append_words could make
\* profane is not profane, and every default word, removed before or not, is
\* profane.
C1_RestoreResets ==
    ret.op = "restore_words" =>
        /\ custom_censor_list = <<>>
        /\ extra_censor_list = <<>>
        /\ censor_list = BadWords
        /\ get_profane_words = FreshProfaneWords
        /\ \A w \in AppendedWords :
               (w \notin Range(BadWords) /\ ~ProfaneByDefault(w))
                   => (w \notin Range(get_profane_words) /\ ~is_profane(w))
        /\ \A w \in Range(BadWords) :
               w \in Range(get_profane_words) /\ is_profane(w)

\* A restore_words has just run in a life that had changed the censor
\* character before it.
C1_Witness ==
    /\ ret.op = "restore_words"
    /\ censor_char = <<"7">>
    /\ censor_list = BadWords
    /\ extra_censor_list = <<>>

\* The base list: the custom list when it is non-empty, the default list (as
\* remove_word left it) otherwise.
BaseSet == IF custom_censor_list # <<>> THEN Range(custom_censor_list)
           ELSE Range(censor_list)

\* C2: in every reachable state the words of get_profane_words() are exactly
\* the base list's, the extra list's and the plural of each of them, without
\* duplicates, the extra list being the constructor's value followed by every
\* append_words argument since construction or the last restore_words.
C2_EffectiveSet ==
    LET words == get_profane_words
        active == BaseSet \cup Range(hist_extra)
    IN  /\ extra_censor_list = hist_extra
        /\ Range(words) = active \cup {pluralize(w) : w \in active}
        /\ Cardinality(Range(words)) = Len(words)

\* The custom list is active, two appends have been made, and the plural of a
\* custom word and an extra word are both among the words.
C2_Witness ==
    /\ custom_censor_list = <<W_b, W_as>>
    /\ Len(extra_censor_list) = 2
    /\ ret.op = "get_profane_words"
    /\ <<"b", "s">> \in Range(ret.words)
    /\ W_aPlus \in Range(ret.words)
    /\ W_ab \notin Range(ret.words)

\* C3: in every reachable state get_profane_words() is ordered by (is regex
\* pattern, ascending; length, descending): no regex-pattern entry precedes a
\* plain one, and within each group no entry precedes a strictly longer one.
C3_Ordered ==
    LET words == get_profane_words IN
    \A i, j \in 1..Len(words) :
        i < j =>
            /\ ~(is_regex_pattern(words[i]) /\ ~is_regex_pattern(words[j]))
            /\ (is_regex_pattern(words[i]) = is_regex_pattern(words[j])
                  => Len(words[i]) >= Len(words[j]))

\* The words hold plain and regex-pattern entries, of several lengths each.
C3_Witness ==
    /\ ret.op = "get_profane_words"
    /\ \E i, j \in 1..Len(ret.words) :
           /\ ~is_regex_pattern(ret.words[i]) /\ ~is_regex_pattern(ret.words[j])
           /\ Len(ret.words[i]) > Len(ret.words[j])
    /\ \E i, j \in 1..Len(ret.words) :
           /\ is_regex_pattern(ret.words[i]) /\ is_regex_pattern(ret.words[j])
           /\ Len(ret.words[i]) > Len(ret.words[j])

\* The list without the item at index i.
WithoutIndex(list, i) ==
    SubSeq(list, 1, i - 1) \o SubSeq(list, i + 1, Len(list))

\* C5: remove_word(w) for a w that the default list does not hold raises and
\* leaves the lists and the configuration as they were; for a w it holds, it
\* takes one entry equal to w out of the default list and leaves the custom
\* list, the extra list and the configuration as they were, so that w is still
\* among the profane words when the extra list or an active custom list holds
\* it.
C5_RemoveWord ==
    /\ [][ret'.op = "remove_word" =>
             LET w == ret'.text IN
             IF w \notin Range(censor_list)
             THEN ret'.flag /\ UNCHANGED engine
             ELSE /\ ~ret'.flag
                  /\ \E i \in 1..Len(censor_list) :
                         /\ censor_list[i] = w
                         /\ censor_list' = WithoutIndex(censor_list, i)
                  /\ UNCHANGED <<custom_censor_list, extra_censor_list,
                                 no_word_boundaries, censor_char,
                                 censor_length>>]_vars
    /\ []((/\ ret.op = "remove_word"
           /\ \/ ret.text \in Range(extra_censor_list)
              \/ (custom_censor_list # <<>>
                    /\ ret.text \in Range(custom_censor_list)))
            => ret.text \in Range(get_profane_words))

\* A remove_word has failed on a word that an earlier remove_word took out,
\* while the extra list still holds the word.
C5_Witness ==
    /\ ret.op = "remove_word"
    /\ ret.flag
    /\ ret.text = W_b
    /\ censor_list = <<W_ab>>
    /\ W_b \in Range(extra_censor_list)

\* C6: the answer of has_bad_word(T) and of is_profane(T) is censor(T) # T,
\* and the answer of is_clean(T) is the negation of it, after any calls.
C6_Predicates ==
    /\ ret.op \in {"has_bad_word", "is_profane"}
         => ret.flag = (censor(ret.text) # ret.text)
    /\ ret.op = "is_clean" => ret.flag = (censor(ret.text) = ret.text)

\* is_clean has answered true for a text that is profane for the bundled
\* list, after remove_word took the word out.
C6_Witness ==
    /\ ret.op = "is_clean"
    /\ ret.flag
    /\ ret.text = <<"A", "b", " ", "a">>
    /\ censor_list = <<W_b>>
    /\ custom_censor_list = <<>>

\* C10: a call of censor, has_bad_word, is_profane, is_clean or
\* get_profane_words leaves the lists (their order and multiplicity included)
\* and the configuration as they were; censor called again on the same text
\* with no other call in between returns the same result, and the result of a
\* censor call is the one the present lists and configuration give.
C10_QueriesFrame ==
    /\ [][ret'.op \in QueryOps =>
             /\ UNCHANGED engine
             /\ (ret.op = "censor" /\ ret'.op = "censor"
                   /\ ret'.text = ret.text) => ret'.out = ret.out]_vars
    /\ [](ret.op = "censor" => ret.out = censor(ret.text))

\* censor has changed a text on an engine whose three lists all differ from
\* a new engine's.
C10_Witness ==
    /\ ret.op = "censor"
    /\ ret.out # ret.text
    /\ custom_censor_list # <<>>
    /\ extra_censor_list # <<>>
    /\ censor_list # BadWords

(***************************************************************************)
(* Properties of censor as a function (SpecCensor).                        *)
(***************************************************************************)

\* A non-empty entry that is not a regex pattern and holds word characters
\* only.
PlainWordy(w) ==
    /\ w # <<>>
    /\ ~is_regex_pattern(w)
    /\ \A i \in 1..Len(w) : IsWordChar(w[i])

\* w and s have a character in common, case aside.
SharesChar(w, s) ==
    \E i \in 1..Len(w), j \in 1..Len(s) : Lower(w[i]) = Lower(s[j])

\* w stands in t at offset p, case aside.
OccursAt(w, t, p) ==
    /\ p + Len(w) <= Len(t)
    /\ \A i \in 1..Len(w) : Lower(t[p + i]) = Lower(w[i])

\* w stands in t at offset p with no word character next to it on either side.
Delimited(w, t, p) ==
    /\ OccursAt(w, t, p)
    /\ p = 0 \/ ~IsWordChar(t[p])
    /\ p + Len(w) = Len(t) \/ ~IsWordChar(t[p + Len(w) + 1])

Occurs(w, t) == \E p \in 0..Len(t) : OccursAt(w, t, p)

OccursDelimited(w, t) == \E p \in 0..Len(t) : Delimited(w, t, p)

\* a is b with characters taken off its ends, and not b.
ProperSubstring(a, b) ==
    /\ Len(a) < Len(b)
    /\ \E p \in 0..(Len(b) - Len(a)) : SubSeq(b, p + 1, p + Len(a)) = a

\* The entry's pattern, as censor builds it, matches somewhere in t.
MatchesIn(entry, t) ==
    Search(Compile(RegexString(entry, no_word_boundaries)), t, 0, 0, FALSE)[1] >= 0

\* C4: every match censor replaces is replaced by censor_char repeated
\* censor_length times when censor_length >= 0, and otherwise as many times as
\* the matched text is long.
C4_MatchedLength ==
    ret.op = "censor" =>
        \A i \in 1..Len(ret.subs) :
            ret.subs[i].repl =
                Repeat(censor_char,
                       IF censor_length >= 0 THEN censor_length
                       ELSE Len(ret.subs[i].matched))

\* C7 as claimed: whenever censor_char is not one of the words, censoring the
\* result of censor again changes nothing, whatever censor_length and
\* no_word_boundaries are.
C7_IdempotentAsClaimed ==
    (ret.op = "censor" /\ censor_char \notin Range(get_profane_words))
        => censor(ret.out) = ret.out

\* C7: when censor_length is not 0, censor_char is not empty, and every word
\* is a plain word of word characters that has no character in common with
\* censor_char, censoring the result of censor again changes nothing, with
\* and without word boundaries.
C7_Idempotent ==
    (/\ ret.op = "censor"
     /\ censor_length # 0
     /\ censor_char # <<>>
     /\ \A w \in Range(get_profane_words) :
            PlainWordy(w) /\ ~SharesChar(w, censor_char))
        => censor(ret.out) = ret.out

\* censor has replaced mid-word matches by a fixed length, and its result is
\* censored again.
C7_Witness ==
    /\ ret.op = "censor"
    /\ censor_length = 3
    /\ no_word_boundaries
    /\ ret.text = <<"a", "a", "b", "b">>
    /\ ret.out # ret.text
    /\ \A w \in Range(get_profane_words) :
           PlainWordy(w) /\ ~SharesChar(w, censor_char)
    /\ censor(ret.out) = ret.out

\* C8 as claimed, for a censor_char that has no character in common with any
\* word: when two plain words a and b are both among the words and a is a
\* proper substring of b, censor of the text b is the replacement of the whole
\* of b, with and without word boundaries.
C8_LongestWinsAsClaimed ==
    ret.op = "censor" =>
        \A a, b \in Range(get_profane_words) :
            (/\ ~is_regex_pattern(a) /\ ~is_regex_pattern(b)
             /\ ProperSubstring(a, b)
             /\ ret.text = b
             /\ \A e \in Range(get_profane_words) : ~SharesChar(e, censor_char))
                => ret.out = Replacement(b, censor_char, censor_length)

\* C8: when every plain word among the words holds word characters only, a
\* and b are two of them, a a proper substring of b, and no word's pattern
\* matches in the replacement of b, censor of the text b is the replacement
\* of the whole of b, with and without word boundaries.
C8_LongestWins ==
    ret.op = "censor" =>
        LET words == Range(get_profane_words) IN
        \A a, b \in words :
            (/\ PlainWordy(a) /\ PlainWordy(b)
             /\ ProperSubstring(a, b)
             /\ ret.text = b
             /\ \A e \in words : ~is_regex_pattern(e) => PlainWordy(e)
             /\ \A e \in words :
                    ~MatchesIn(e, Replacement(b, censor_char, censor_length)))
                => ret.out = Replacement(b, censor_char, censor_length)

\* Without word boundaries the text "ab" is censored whole while "b" is a
\* word too.
C8_Witness ==
    /\ ret.op = "censor"
    /\ no_word_boundaries
    /\ censor_length = -1
    /\ ret.text = W_ab
    /\ {W_ab, W_b} \subseteq Range(get_profane_words)
    /\ \A e \in Range(get_profane_words) :
           ~MatchesIn(e, Replacement(W_ab, censor_char, censor_length))
    /\ ret.out = censor_char \o censor_char

====
